---- MODULE Spec2Model ----
(***************************************************************************)
(* Polaroid-light: film catalogue, accounts and purchases.                 *)
(*                                                                         *)
(* The storage layer (Prisma on PostgreSQL) is modelled as three relations *)
(* with the constraints of prisma/schema.prisma; every repository call is  *)
(* one atomic step, and a service method is a sequence of such steps, one  *)
(* per `await`.  Strings that the code transforms (emails, names, account  *)
(* ids) are sequences of one-character strings.                            *)
(***************************************************************************)
EXTENDS Integers, Sequences, FiniteSets, TLC

VARIABLES
  users,      \* relation User: set of rows
  films,      \* relation Film: set of rows
  purchases,  \* relation Purchase: rows in order of creation
  pc,         \* per request: the await it is suspended at
  inv,        \* per request: the operation and its arguments
  result,     \* per request: what the last invocation returned or threw
  calls,      \* invocations started so far
  before,     \* the relations when the current invocation started
  response,   \* per request: what errorHandler answered, if it ran
  pages,      \* what the getAllFilms calls of one listing returned, in order
  limiters,   \* options of each rateLimiter(options) instance
  store,      \* the module-level Map of rateLimiter-middlewares.ts
  now,        \* Date.now()
  log         \* admission checks so far: limiter, key, time, outcome

vars == << users, films, purchases, pc, inv, result, calls, before,
           response, pages, limiters, store, now, log >>

dbVars == << users, films, purchases >>
procVars == << pc, inv, result, calls, before, response, pages >>
limVars == << limiters, store, now, log >>

-----------------------------------------------------------------------------
(* Bounds *)

NumProcs == 2
MaxCalls == 2
MaxSeqCalls == 3
MaxChecks == 6
MaxBurst == 3
MaxSweepCalls == 6
MaxListCalls == 3
MaxStatCalls == 4
MaxTripCalls == 4
MaxUpdateCalls == 3
MaxKeepCalls == 3
MaxCatalogueCalls == 3
MaxLookupCalls == 3

\* Requests of the updateFilm specification.
MaxFilmCalls == 3
MaxTicks == 3
MaxWindow == 2
MaxMax == 2

Procs == 1..NumProcs

-----------------------------------------------------------------------------
(* Strings *)

Empty == << >>

LowerChar(c) ==
  CASE c = "A" -> "a"
    [] c = "B" -> "b"
    [] c = "N" -> "n"
    [] c = "U" -> "u"
    [] c = "X" -> "x"
    [] OTHER -> c

toLowerCase(s) == [i \in 1..Len(s) |-> LowerChar(s[i])]

IsSpace(c) == c = " "

RECURSIVE trimStart(_)
trimStart(s) ==
  IF s # Empty /\ IsSpace(Head(s)) THEN trimStart(Tail(s)) ELSE s

RECURSIVE trimEnd(_)
trimEnd(s) ==
  IF s # Empty /\ IsSpace(s[Len(s)])
    THEN trimEnd(SubSeq(s, 1, Len(s) - 1))
    ELSE s

trim(s) == trimEnd(trimStart(s))

\* [^\s@]+
Plain(s, from, to) ==
  /\ from <= to
  /\ \A i \in from..to : ~IsSpace(s[i]) /\ s[i] # "@"

\* /^[^\s@]+@[^\s@]+\.[^\s@]+$/
emailRegex(s) ==
  \E i \in 1..Len(s) : \E j \in 1..Len(s) :
    /\ s[i] = "@"
    /\ s[j] = "."
    /\ Plain(s, 1, i - 1)
    /\ Plain(s, i + 1, j - 1)
    /\ Plain(s, j + 1, Len(s))

PlaceholderEmail(userId) ==
  << "u", "s", "e", "r", "-" >> \o userId
    \o << "@", "p", "o", "l", "a", "r", "o", "i", "d", ".", "c", "o", "m" >>

PlaceholderName(userId) == << "U", "s", "e", "r", " " >> \o userId

-----------------------------------------------------------------------------
(* Errors and the error handler *)

\* A message is the sequence of the pieces it is put together from.
\* The invocation returned value.
OkWith(value) ==
  [kind |-> "ok", statusCode |-> 200, code |-> "", target |-> "",
   message |-> << >>, isOperational |-> TRUE, value |-> value]

Ok == OkWith(<< >>)

\* new ApiError(statusCode, message, isOperational)
NewApiError(statusCode, message, isOperational) ==
  [kind |-> "ApiError", statusCode |-> statusCode, code |-> "",
   target |-> "", message |-> message, isOperational |-> isOperational]

\* An ApiError as the services and the rate limiter throw it: operational,
\* its message text left out.
ApiError(statusCode) == NewApiError(statusCode, << >>, TRUE)

\* code is error.code ("P2002", ...), target is error.meta.target
PrismaKnown(code, target) ==
  [kind |-> "PrismaClientKnownRequestError", statusCode |-> 0, code |-> code,
   target |-> target, message |-> << >>, isOperational |-> FALSE]

\* Any other Error: kind is the class it is an instance of.
OtherError(kind, message) ==
  [kind |-> kind, statusCode |-> 0, code |-> "", target |-> "",
   message |-> message, isOperational |-> FALSE]

\* Variant: every known request error answered with 400.
KnownRequestStatus_AllBadRequest(code) == 400

\* switch (error.code)
KnownRequestStatus(code) ==
  CASE code = "P2002" -> 409
    [] code = "P2025" -> 404
    [] code = "P2003" -> 400
    [] code = "P2016" -> 400
    [] OTHER -> 400

KnownRequestMessage(error) ==
  CASE error.code = "P2002" -> << "Duplicate value for ", error.target >>
    [] error.code = "P2025" -> << "Record not found" >>
    [] error.code = "P2003" ->
         << "Invalid reference: related record does not exist" >>
    [] error.code = "P2016" -> << "Query interpretation error" >>
    [] OTHER -> << "Database error: ", error.code >>

\* let statusCode = 500
DefaultStatus == 500

DefaultMessage == << "Internal server error" >>

errorHandler(error) ==
  IF error.kind = "ApiError"
    THEN [statusCode |-> error.statusCode, message |-> error.message,
          isOperational |-> error.isOperational]
  ELSE IF error.kind = "PrismaClientKnownRequestError"
    THEN [statusCode |-> KnownRequestStatus(error.code),
          message |-> KnownRequestMessage(error),
          isOperational |-> TRUE]
  ELSE IF error.kind = "PrismaClientValidationError"
    THEN [statusCode |-> 400, message |-> << "Invalid data provided" >>,
          isOperational |-> TRUE]
  ELSE IF error.kind = "PrismaClientInitializationError"
    THEN [statusCode |-> 500, message |-> << "Database connection error" >>,
          isOperational |-> FALSE]
  ELSE IF error.kind = "PrismaClientUnknownRequestError"
    THEN [statusCode |-> 500,
          message |-> << "Unknown database error occurred" >>,
          isOperational |-> FALSE]
  ELSE [statusCode |-> DefaultStatus, message |-> DefaultMessage,
        isOperational |-> FALSE]

\* The status the caller sees for a finished invocation.
Status(r) == IF r.kind = "ok" THEN 200 ELSE errorHandler(r).statusCode

-----------------------------------------------------------------------------
(* Input pools *)

\* Account ids a caller supplies (body.userId is any non-empty string).
UserIds == { << "x" >>, << "X" >> }

\* Ids uuidv4() may return.
GeneratedIds == { << "g" >>, << "h" >> }

FilmIds == { "f1", "f2" }

MailA == << "a", "@", "b", ".", "c" >>
MailUpperA == << "A", "@", "b", ".", "c" >>

\* Emails the concurrent requests supply.
Emails == { MailUpperA, PlaceholderEmail(<< "x" >>) }

Names == { << "n" >> }

\* A row of Film as inserted now: createdAt DateTime @default(now()),
\* updatedAt DateTime @updatedAt.
FilmRow(id, data) ==
  [id |-> id, title |-> data.title, description |-> data.description,
   price |-> data.price, videoUrl |-> data.videoUrl,
   uploadedBy |-> data.uploadedBy, createdAt |-> now, updatedAt |-> now]

FilmData ==
  [title |-> << "a" >>, description |-> << "b" >>, price |-> 1,
   videoUrl |-> << "u" >>, uploadedBy |-> << "x" >>]

Film(id) == FilmRow(id, FilmData)

-----------------------------------------------------------------------------
(* Storage: schema.prisma constraints *)

\* Rows as inserted now: createdAt DateTime @default(now()).
UserRow(id, email, name) ==
  [id |-> id, email |-> email, name |-> name, createdAt |-> now]

PurchaseRow(userId, filmId) ==
  [userId |-> userId, filmId |-> filmId, createdAt |-> now]

\* model.findUnique({ where: { id } })
findById(table, id) == { r \in table : r.id = id }

\* prisma.user.findUnique({ where: { email } })
findByEmail(email) == { r \in users : r.email = email }

\* prisma.purchase.findUnique({ where: { userId_filmId } })
findByUserAndFilm(userId, filmId) ==
  { i \in DOMAIN purchases :
      purchases[i].userId = userId /\ purchases[i].filmId = filmId }

checkIfPurchased(userId, filmId) == findByUserAndFilm(userId, filmId) # {}

\* prisma.purchase.count({ where: { filmId } })
getFilmPurchaseCount(filmId) ==
  Cardinality({ i \in DOMAIN purchases : purchases[i].filmId = filmId })

\* User_pkey and User_email_key
UserIdTaken(row, self) == \E r \in users : r.id # self /\ r.id = row.id

\* Variant: User_email_key not enforced.
UserEmailTaken_Unenforced(row, self) == FALSE

UserEmailTaken(row, self) ==
  \E r \in users : r.id # self /\ r.email = row.email

\* The P2002 an insert or update of row raises; self is the updated row's id.
UserUniqueError(row, self) ==
  IF UserIdTaken(row, self) THEN PrismaKnown("P2002", "id")
  ELSE PrismaKnown("P2002", "email")

UserUniqueViolation(row, self) ==
  UserIdTaken(row, self) \/ UserEmailTaken(row, self)

\* Variant: Purchase_userId_filmId_key not enforced.
PurchaseUniqueViolation_Unenforced(userId, filmId) == FALSE

\* Purchase_userId_filmId_key
PurchaseUniqueViolation(userId, filmId) ==
  \E i \in DOMAIN purchases :
    purchases[i].userId = userId /\ purchases[i].filmId = filmId

\* Purchase_userId_fkey and Purchase_filmId_fkey, on insert
PurchaseFkViolation(userId, filmId) ==
  \/ findById(users, userId) = {}
  \/ findById(films, filmId) = {}

\* Variant: Purchase_filmId_fkey without ON DELETE RESTRICT.
FilmDeleteRestricted_Unenforced(filmId) == FALSE

\* Purchase_filmId_fkey ON DELETE RESTRICT
FilmDeleteRestricted(filmId) ==
  \E i \in DOMAIN purchases : purchases[i].filmId = filmId

\* Variant: Purchase_userId_fkey without ON DELETE RESTRICT.
UserDeleteRestricted_Unenforced(userId) == FALSE

\* Purchase_userId_fkey ON DELETE RESTRICT
UserDeleteRestricted(userId) ==
  \E i \in DOMAIN purchases : purchases[i].userId = userId

-----------------------------------------------------------------------------
(* Invocations *)

NoInv ==
  [op |-> "none", userId |-> Empty, filmId |-> "", email |-> Empty,
   name |-> Empty, hasEmail |-> FALSE, hasName |-> FALSE, id |-> Empty,
   limiter |-> "", key |-> "", page |-> 0, limit |-> 0, data |-> << >>,
   query |-> [page |-> [present |-> FALSE, value |-> 0],
              limit |-> [present |-> FALSE, value |-> 0]],
   found |-> << >>, total |-> 0, seen |-> 0, lookup |-> << >>,
   prev |-> << >>]

Pending ==
  [kind |-> "pending", statusCode |-> 0, code |-> "", target |-> "",
   message |-> << >>, isOperational |-> FALSE]

Free(p) == pc[p] \in { "idle", "done" }

Done(p, op) == pc[p] = "done" /\ inv[p].op = op

Begin(p, i, at) ==
  /\ Free(p)
  /\ calls' = calls + 1
  /\ inv' = [inv EXCEPT ![p] = i]
  /\ pc' = [pc EXCEPT ![p] = at]
  /\ result' = [result EXCEPT ![p] = Pending]
  /\ UNCHANGED << response, pages >>

Goto(p, at) ==
  /\ pc' = [pc EXCEPT ![p] = at]
  /\ UNCHANGED << inv, result, calls, before, response, pages >>

Finish(p, r) ==
  /\ pc' = [pc EXCEPT ![p] = "done"]
  /\ result' = [result EXCEPT ![p] = r]
  /\ UNCHANGED << inv, calls, before, response, pages >>

-----------------------------------------------------------------------------
(* FilmService.purchaseFilm *)

StartPurchase(p, userId, filmId) ==
  /\ Begin(p, [NoInv EXCEPT !.op = "purchaseFilm", !.userId = userId,
                            !.filmId = filmId], "pf_getFilm")
  /\ UNCHANGED << dbVars, limVars >>

\* Variant: the film is not looked up before the account.
PfGetFilm_Skipped(p) ==
  /\ pc[p] = "pf_getFilm"
  /\ Goto(p, "pf_findUser")
  /\ UNCHANGED << dbVars, limVars >>

PfGetFilm(p) ==
  /\ pc[p] = "pf_getFilm"
  /\ IF findById(films, inv[p].filmId) = {}
       THEN Finish(p, ApiError(404))
       ELSE Goto(p, "pf_findUser")
  /\ UNCHANGED << dbVars, limVars >>

PfFindUser(p) ==
  /\ pc[p] = "pf_findUser"
  /\ IF findById(users, inv[p].userId) = {}
       THEN Goto(p, "pf_createUser")
       ELSE Goto(p, "pf_check")
  /\ UNCHANGED << dbVars, limVars >>

PfCreateUser(p) ==
  /\ pc[p] = "pf_createUser"
  /\ LET row == UserRow(inv[p].userId, PlaceholderEmail(inv[p].userId),
                        PlaceholderName(inv[p].userId))
     IN IF UserUniqueViolation(row, Empty)
          THEN Finish(p, UserUniqueError(row, Empty)) /\ users' = users
          ELSE Goto(p, "pf_check") /\ users' = users \cup { row }
  /\ UNCHANGED << films, purchases, limVars >>

PfCheck(p) ==
  /\ pc[p] = "pf_check"
  /\ IF checkIfPurchased(inv[p].userId, inv[p].filmId)
       THEN Finish(p, ApiError(409))
       ELSE Goto(p, "pf_create")
  /\ UNCHANGED << dbVars, limVars >>

\* PurchaseRepository.createPurchase
PfCreate(p) ==
  /\ pc[p] = "pf_create"
  /\ IF PurchaseUniqueViolation(inv[p].userId, inv[p].filmId)
       THEN /\ Finish(p, PrismaKnown("P2002", "userId_filmId"))
            /\ purchases' = purchases
     ELSE IF PurchaseFkViolation(inv[p].userId, inv[p].filmId)
       THEN /\ Finish(p, PrismaKnown("P2003", "Purchase_fkey"))
            /\ purchases' = purchases
     ELSE /\ Finish(p, Ok)
          /\ purchases' =
               Append(purchases, PurchaseRow(inv[p].userId, inv[p].filmId))
  /\ UNCHANGED << users, films, limVars >>

purchaseFilm(p) ==
  \/ PfGetFilm(p) \/ PfFindUser(p) \/ PfCreateUser(p)
  \/ PfCheck(p) \/ PfCreate(p)

-----------------------------------------------------------------------------
(* FilmService.deleteFilm *)

StartDeleteFilm(p, filmId) ==
  /\ Begin(p, [NoInv EXCEPT !.op = "deleteFilm", !.filmId = filmId],
           "df_getFilm")
  /\ UNCHANGED << dbVars, limVars >>

DfGetFilm(p) ==
  /\ pc[p] = "df_getFilm"
  /\ IF findById(films, inv[p].filmId) = {}
       THEN Finish(p, ApiError(404))
       ELSE Goto(p, "df_count")
  /\ UNCHANGED << dbVars, limVars >>

\* Variant: purchaseCount > 1.
HasPurchases_OffByOne(purchaseCount) == purchaseCount > 1

\* purchaseCount > 0
HasPurchases(purchaseCount) == purchaseCount > 0

\* Variant: the rejection raised as a 409.
DeleteFilmRejection_Conflict == ApiError(409)

\* new ApiError(400, 'Cannot delete film with existing purchases')
DeleteFilmRejection == ApiError(400)

DfCount(p) ==
  /\ pc[p] = "df_count"
  /\ IF HasPurchases(getFilmPurchaseCount(inv[p].filmId))
       THEN Finish(p, DeleteFilmRejection)
       ELSE Goto(p, "df_delete")
  /\ UNCHANGED << dbVars, limVars >>

\* filmRepository.delete
DfDelete(p) ==
  /\ pc[p] = "df_delete"
  /\ IF findById(films, inv[p].filmId) = {}
       THEN Finish(p, PrismaKnown("P2025", "")) /\ films' = films
     ELSE IF FilmDeleteRestricted(inv[p].filmId)
       THEN /\ Finish(p, PrismaKnown("P2003", "Purchase_filmId_fkey"))
            /\ films' = films
     ELSE /\ Finish(p, Ok)
          /\ films' = films \ findById(films, inv[p].filmId)
  /\ UNCHANGED << users, purchases, limVars >>

deleteFilm(p) == DfGetFilm(p) \/ DfCount(p) \/ DfDelete(p)

-----------------------------------------------------------------------------
(* UserService.createUser *)

BeginDone(p, i, r) ==
  /\ Free(p)
  /\ calls' = calls + 1
  /\ inv' = [inv EXCEPT ![p] = i]
  /\ pc' = [pc EXCEPT ![p] = "done"]
  /\ result' = [result EXCEPT ![p] = r]
  /\ UNCHANGED << response, pages >>

\* uuidv4(): an id no account and no invocation in flight holds.
FreshIds ==
  GeneratedIds \ ({ r.id : r \in users } \cup { inv[q].id : q \in Procs })

NameMissing(name) == Len(trim(name)) = 0

NewUserId(data) ==
  IF data.userId # Empty THEN data.userId ELSE CHOOSE id \in FreshIds : TRUE

StartCreateUser(p, userId, email, name) ==
  /\ userId = Empty => FreshIds # {}
  /\ LET data == [NoInv EXCEPT !.op = "createUser", !.userId = userId,
                               !.email = email, !.name = name]
         i == [data EXCEPT !.id = NewUserId(data)]
     IN IF ~emailRegex(email)
          THEN BeginDone(p, i, ApiError(400))
          ELSE Begin(p, i, "cu_findByEmail")
  /\ UNCHANGED << dbVars, limVars >>

CuFindByEmail(p) ==
  /\ pc[p] = "cu_findByEmail"
  /\ IF findByEmail(inv[p].email) # {}
       THEN Finish(p, ApiError(409))
     ELSE IF NameMissing(inv[p].name)
       THEN Finish(p, ApiError(400))
     ELSE Goto(p, "cu_create")
  /\ UNCHANGED << dbVars, limVars >>

\* Variant: email and name stored as given.
NewUserRow_AsGiven(i) == UserRow(i.id, i.email, i.name)

NewUserRow(i) == UserRow(i.id, toLowerCase(i.email), trim(i.name))

CuCreate(p) ==
  /\ pc[p] = "cu_create"
  /\ IF UserUniqueViolation(NewUserRow(inv[p]), Empty)
       THEN /\ Finish(p, UserUniqueError(NewUserRow(inv[p]), Empty))
            /\ users' = users
       ELSE Finish(p, Ok) /\ users' = users \cup { NewUserRow(inv[p]) }
  /\ UNCHANGED << films, purchases, limVars >>

createUser(p) == CuFindByEmail(p) \/ CuCreate(p)

-----------------------------------------------------------------------------
(* UserService.getUserByEmail *)

\* The call request p made before and what it returned.
Previous(p) == [inv |-> [inv[p] EXCEPT !.prev = << >>], result |-> result[p]]

StartGetUserByEmail(p, email) ==
  /\ Begin(p, [NoInv EXCEPT !.op = "getUserByEmail", !.lookup = email,
                            !.prev = Previous(p)], "ge_find")
  /\ UNCHANGED << dbVars, limVars >>

GeFind(p) ==
  /\ pc[p] = "ge_find"
  /\ IF findByEmail(inv[p].lookup) = {}
       THEN Finish(p, ApiError(404))
       ELSE Finish(p, OkWith(CHOOSE r \in users : r.email = inv[p].lookup))
  /\ UNCHANGED << dbVars, limVars >>

getUserByEmail(p) == GeFind(p)

-----------------------------------------------------------------------------
(* UserService.updateUser *)

StartUpdateUser(p, id, hasEmail, email, hasName, name) ==
  /\ Begin(p, [NoInv EXCEPT !.op = "updateUser", !.userId = id,
                            !.hasEmail = hasEmail, !.email = email,
                            !.hasName = hasName, !.name = name],
           "uu_getUser")
  /\ UNCHANGED << dbVars, limVars >>

\* The name check of updateUser and what follows it.
UuAfterEmail(p) ==
  IF inv[p].hasName /\ NameMissing(inv[p].name)
    THEN Finish(p, ApiError(400))
    ELSE Goto(p, "uu_update")

UuGetUser(p) ==
  /\ pc[p] = "uu_getUser"
  /\ IF findById(users, inv[p].userId) = {}
       THEN Finish(p, ApiError(404))
     ELSE IF inv[p].hasEmail
       THEN IF ~emailRegex(inv[p].email)
              THEN Finish(p, ApiError(400))
              ELSE Goto(p, "uu_findByEmail")
     ELSE UuAfterEmail(p)
  /\ UNCHANGED << dbVars, limVars >>

UuFindByEmail(p) ==
  /\ pc[p] = "uu_findByEmail"
  /\ IF \E r \in findByEmail(inv[p].email) : r.id # inv[p].userId
       THEN Finish(p, ApiError(409))
       ELSE UuAfterEmail(p)
  /\ UNCHANGED << dbVars, limVars >>

UpdatedUserRow(old, i) ==
  [old EXCEPT !.email = IF i.hasEmail THEN toLowerCase(i.email) ELSE @,
              !.name = IF i.hasName THEN trim(i.name) ELSE @]

UuUpdate(p) ==
  /\ pc[p] = "uu_update"
  /\ IF findById(users, inv[p].userId) = {}
       THEN Finish(p, PrismaKnown("P2025", "")) /\ users' = users
     ELSE LET old == CHOOSE r \in users : r.id = inv[p].userId
              new == UpdatedUserRow(old, inv[p])
          IN IF UserUniqueViolation(new, old.id)
               THEN /\ Finish(p, UserUniqueError(new, old.id))
                    /\ users' = users
               ELSE Finish(p, Ok) /\ users' = (users \ { old }) \cup { new }
  /\ UNCHANGED << films, purchases, limVars >>

updateUser(p) == UuGetUser(p) \/ UuFindByEmail(p) \/ UuUpdate(p)

-----------------------------------------------------------------------------
(* UserService.deleteUser *)

StartDeleteUser(p, id) ==
  /\ Begin(p, [NoInv EXCEPT !.op = "deleteUser", !.userId = id],
           "du_getUser")
  /\ UNCHANGED << dbVars, limVars >>

DuGetUser(p) ==
  /\ pc[p] = "du_getUser"
  /\ IF findById(users, inv[p].userId) = {}
       THEN Finish(p, ApiError(404))
       ELSE Goto(p, "du_delete")
  /\ UNCHANGED << dbVars, limVars >>

\* userRepository.delete
DuDelete(p) ==
  /\ pc[p] = "du_delete"
  /\ IF findById(users, inv[p].userId) = {}
       THEN Finish(p, PrismaKnown("P2025", "")) /\ users' = users
     ELSE IF UserDeleteRestricted(inv[p].userId)
       THEN /\ Finish(p, PrismaKnown("P2003", "Purchase_userId_fkey"))
            /\ users' = users
     ELSE /\ Finish(p, Ok)
          /\ users' = users \ findById(users, inv[p].userId)
  /\ UNCHANGED << films, purchases, limVars >>

deleteUser(p) == DuGetUser(p) \/ DuDelete(p)

-----------------------------------------------------------------------------
(* FilmService.createFilm *)

\* Ids @default(uuid()) may give a new film.
NewFilmIds == { "f3", "f4", "f5" }

FreshFilmIds == NewFilmIds \ { r.id : r \in films }

\* !data.title || data.title.trim().length === 0
TitleMissing(title) == Len(trim(title)) = 0

StartCreateFilm(p, data) ==
  /\ LET i == [NoInv EXCEPT !.op = "createFilm", !.data = data]
     IN IF data.price < 0 \/ TitleMissing(data.title)
          THEN BeginDone(p, i, ApiError(400))
          ELSE Begin(p, i, "cf_create")
  /\ UNCHANGED << dbVars, limVars >>

NewFilmRow(id, data) ==
  FilmRow(id, [data EXCEPT !.title = trim(@), !.description = trim(@)])

\* filmRepository.create
CfCreate(p) ==
  /\ pc[p] = "cf_create"
  /\ FreshFilmIds # {}
  /\ LET row == NewFilmRow(CHOOSE id \in FreshFilmIds : TRUE, inv[p].data)
     IN /\ films' = films \cup { row }
        /\ inv' = [inv EXCEPT ![p].filmId = row.id]
        /\ pc' = [pc EXCEPT ![p] = "done"]
        /\ result' = [result EXCEPT ![p] = OkWith(row)]
  /\ UNCHANGED << calls, before, response, pages, users, purchases, limVars >>

createFilm(p) == CfCreate(p)

-----------------------------------------------------------------------------
(* FilmService.updateFilm *)

FilmFields == { "title", "description", "price", "videoUrl" }

\* Partial<CreateFilmDto>: given holds the fields that are not undefined.
PartialFilm(given, title, description, price, videoUrl) ==
  [given |-> given, title |-> title, description |-> description,
   price |-> price, videoUrl |-> videoUrl]

StartUpdateFilm(p, id, data) ==
  /\ Begin(p, [NoInv EXCEPT !.op = "updateFilm", !.filmId = id,
                            !.data = data], "uf_getFilm")
  /\ UNCHANGED << dbVars, limVars >>

\* Variant: the price is not checked.
PriceRejected_Never(data) == FALSE

\* data.price !== undefined && data.price < 0
PriceRejected(data) == "price" \in data.given /\ data.price < 0

UfGetFilm(p) ==
  /\ pc[p] = "uf_getFilm"
  /\ IF findById(films, inv[p].filmId) = {}
       THEN Finish(p, ApiError(404))
     ELSE IF PriceRejected(inv[p].data)
       THEN Finish(p, ApiError(400))
     ELSE Goto(p, "uf_update")
  /\ UNCHANGED << dbVars, limVars >>

\* Variant: a field that is not given is stored as the empty value.
UpdatedFilmRow_Overwriting(old, data) ==
  [old EXCEPT
     !.title = IF "title" \in data.given THEN trim(data.title) ELSE << >>,
     !.description = IF "description" \in data.given
                       THEN trim(data.description) ELSE << >>,
     !.price = IF "price" \in data.given THEN data.price ELSE 0,
     !.videoUrl = IF "videoUrl" \in data.given THEN data.videoUrl ELSE << >>,
     !.updatedAt = now]

\* The row after update({ where: { id }, data: updateData }) now; the
\* storage sets updatedAt on every update.
UpdatedFilmRow(old, data) ==
  [old EXCEPT
     !.title = IF "title" \in data.given THEN trim(data.title) ELSE @,
     !.description = IF "description" \in data.given
                       THEN trim(data.description) ELSE @,
     !.price = IF "price" \in data.given THEN data.price ELSE @,
     !.videoUrl = IF "videoUrl" \in data.given THEN data.videoUrl ELSE @,
     !.updatedAt = now]

\* filmRepository.update
UfUpdate(p) ==
  /\ pc[p] = "uf_update"
  /\ IF findById(films, inv[p].filmId) = {}
       THEN Finish(p, PrismaKnown("P2025", "")) /\ films' = films
       ELSE LET old == CHOOSE r \in films : r.id = inv[p].filmId
                new == UpdatedFilmRow(old, inv[p].data)
            IN /\ films' = (films \ { old }) \cup { new }
               /\ Finish(p, OkWith(new))
  /\ UNCHANGED << users, purchases, limVars >>

updateFilm(p) == UfGetFilm(p) \/ UfUpdate(p)

-----------------------------------------------------------------------------
(* FilmService.getAllFilms / FilmRepository.findManyPaginated *)

Min(a, b) == IF a <= b THEN a ELSE b

Max(a, b) == IF a >= b THEN a ELSE b

\* Math.ceil(a / b) for a >= 0 and b # 0
CeilDiv(a, b) == IF b > 0 THEN (a + b - 1) \div b ELSE -(a \div (-b))

Perms(S) ==
  { f \in [1..Cardinality(S) -> S] :
      \A i \in DOMAIN f, j \in DOMAIN f : f[i] = f[j] => i = j }

\* orderBy: { createdAt: 'desc' }: the orders a query may return the rows
\* in; the order of rows of equal createdAt is the storage's choice, made
\* anew by every query.
OrderedDesc(table) ==
  { f \in Perms(table) :
      \A i \in DOMAIN f, j \in DOMAIN f :
        i < j => f[i].createdAt >= f[j].createdAt }

\* findMany({ skip, take }) over rows in order ord, skip >= 0: the take
\* rows after the first skip; a negative take counts from the end.
FindMany(ord, skip, take) ==
  IF take >= 0
    THEN SubSeq(ord, skip + 1, Min(Len(ord), skip + take))
    ELSE SubSeq(ord, Max(1, Len(ord) - skip + take + 1), Len(ord) - skip)

\* What the client gets when the storage refuses a negative skip.
SkipRefusals ==
  { PrismaKnown("P2019", ""),
    OtherError("PrismaClientValidationError", << "skip" >>),
    OtherError("PrismaClientUnknownRequestError", << "skip" >>) }

StartGetAllFilms(p, page, limit) ==
  /\ Begin(p, [NoInv EXCEPT !.op = "getAllFilms", !.page = page,
                            !.limit = limit], "gf_query")
  /\ UNCHANGED << dbVars, limVars >>

\* findManyPaginated: findMany and count in one $transaction.
GfQuery(p) ==
  /\ pc[p] = "gf_query"
  /\ pc' = [pc EXCEPT ![p] = "done"]
  /\ LET page == inv[p].page
         limit == inv[p].limit
         skip == (page - 1) * limit
         total == Cardinality(films)
     IN IF skip < 0
          THEN \E e \in SkipRefusals : result' = [result EXCEPT ![p] = e]
          ELSE \E ord \in OrderedDesc(films) :
                 result' = [result EXCEPT ![p] =
                   OkWith([films |-> FindMany(ord, skip, limit),
                           total |-> total, page |-> page,
                           totalPages |-> CeilDiv(total, limit)])]
  /\ UNCHANGED << inv, calls, before, response, dbVars, limVars >>

getAllFilms(p) == GfQuery(p) /\ UNCHANGED pages

-----------------------------------------------------------------------------
(* The controllers of GET /films and GET /users *)

\* req.query.page, req.query.limit: absent, or the text of an integer.
Missing == [present |-> FALSE, value |-> 0]

Given(n) == [present |-> TRUE, value |-> n]

NoQuery == [page |-> Missing, limit |-> Missing]

NaN == [nan |-> TRUE, value |-> 0]

\* parseInt(q as string)
parseInt(q) == IF q.present THEN [nan |-> FALSE, value |-> q.value] ELSE NaN

\* v || default: NaN and 0 are falsy
OrDefault(v, default) == IF v.nan \/ v.value = 0 THEN default ELSE v.value

QueryPage(query) == OrDefault(parseInt(query.page), 1)

QueryLimit(query) == OrDefault(parseInt(query.limit), 20)

\* FilmController.getAllFilms
GetFilms(p, query) ==
  /\ Begin(p, [NoInv EXCEPT !.op = "getAllFilms", !.query = query,
                            !.page = QueryPage(query),
                            !.limit = QueryLimit(query)], "gf_query")
  /\ UNCHANGED << dbVars, limVars >>

-----------------------------------------------------------------------------
(* UserService.getAllUsers *)

StartGetAllUsers(p, page, limit, query) ==
  /\ Begin(p, [NoInv EXCEPT !.op = "getAllUsers", !.query = query,
                            !.page = page, !.limit = limit], "gu_none")
  /\ UNCHANGED << dbVars, limVars >>

\* UserController.getAllUsers
GetUsers(p, query) ==
  StartGetAllUsers(p, QueryPage(query), QueryLimit(query), query)

\* What getAllUsers returns once both queries of Promise.all have resolved.
UsersPage(i, found, total) ==
  OkWith([users |-> found, total |-> total, page |-> i.page,
          totalPages |-> CeilDiv(total, i.limit)])

\* userRepository.findMany({ skip, take, orderBy }): resolves first or last.
GuFindMany(p) ==
  /\ pc[p] \in { "gu_none", "gu_counted" }
  /\ LET skip == (inv[p].page - 1) * inv[p].limit
     IN IF skip < 0
          THEN /\ \E e \in SkipRefusals : result' = [result EXCEPT ![p] = e]
               /\ pc' = [pc EXCEPT ![p] = "done"]
               /\ inv' = inv
          ELSE \E ord \in OrderedDesc(users) :
                 LET found == FindMany(ord, skip, inv[p].limit)
                 IN /\ inv' = [inv EXCEPT ![p].found = found,
                                          ![p].seen = Cardinality(users)]
                    /\ IF pc[p] = "gu_counted"
                         THEN /\ pc' = [pc EXCEPT ![p] = "done"]
                              /\ result' = [result EXCEPT ![p] =
                                   UsersPage(inv[p], found, inv[p].total)]
                         ELSE /\ pc' = [pc EXCEPT ![p] = "gu_found"]
                              /\ result' = result
  /\ UNCHANGED << calls, before, response, pages, dbVars, limVars >>

\* userRepository.count(): resolves first or last.
GuCount(p) ==
  /\ pc[p] \in { "gu_none", "gu_found" }
  /\ inv' = [inv EXCEPT ![p].total = Cardinality(users)]
  /\ IF pc[p] = "gu_found"
       THEN /\ pc' = [pc EXCEPT ![p] = "done"]
            /\ result' = [result EXCEPT ![p] =
                 UsersPage(inv[p], inv[p].found, Cardinality(users))]
       ELSE /\ pc' = [pc EXCEPT ![p] = "gu_counted"]
            /\ result' = result
  /\ UNCHANGED << calls, before, response, pages, dbVars, limVars >>

getAllUsers(p) == GuFindMany(p) \/ GuCount(p)

-----------------------------------------------------------------------------
(* UserService.getUserStats / UserRepository.getUserStats *)

\* null; createdAt values are never negative.
Null == -1

StartGetUserStats(p, userId) ==
  /\ Begin(p, [NoInv EXCEPT !.op = "getUserStats", !.userId = userId],
           "gs_getUser")
  /\ UNCHANGED << dbVars, limVars >>

GsGetUser(p) ==
  /\ pc[p] = "gs_getUser"
  /\ IF findById(users, inv[p].userId) = {}
       THEN Finish(p, ApiError(404))
       ELSE Goto(p, "gs_stats")
  /\ UNCHANGED << dbVars, limVars >>

\* where: { userId }
PurchasesOf(userId) ==
  { purchases[i] : i \in { j \in DOMAIN purchases :
                             purchases[j].userId = userId } }

\* Variant: findMany without orderBy.
OrderedAsc_Unordered(table) == Perms(table)

\* orderBy: { createdAt: 'asc' }
OrderedAsc(table) ==
  { f \in Perms(table) :
      \A i \in DOMAIN f, j \in DOMAIN f :
        i < j => f[i].createdAt <= f[j].createdAt }

\* include: { film: { select: { price: true } } }
FilmPrice(purchase) ==
  (CHOOSE r \in films : r.id = purchase.filmId).price

\* purchases.reduce((sum, purchase) => sum + purchase.film.price, 0)
RECURSIVE TotalSpent(_)
TotalSpent(found) ==
  IF found = << >> THEN 0
  ELSE TotalSpent(SubSeq(found, 1, Len(found) - 1))
         + FilmPrice(found[Len(found)])

\* found[i]?.createdAt || null
CreatedAtOrNull(found, i) ==
  IF i \in DOMAIN found THEN found[i].createdAt ELSE Null

\* count and findMany in one $transaction, then the aggregation.
GsStats(p) ==
  /\ pc[p] = "gs_stats"
  /\ \E found \in OrderedAsc(PurchasesOf(inv[p].userId)) :
       Finish(p, OkWith(
         [totalPurchases |-> Cardinality(PurchasesOf(inv[p].userId)),
          totalSpent |-> TotalSpent(found),
          firstPurchase |-> CreatedAtOrNull(found, 1),
          lastPurchase |-> CreatedAtOrNull(found, Len(found))]))
  /\ UNCHANGED << dbVars, limVars >>

getUserStats(p) == GsGetUser(p) \/ GsStats(p)

-----------------------------------------------------------------------------
(* UserService.checkFilmPurchased *)

StartCheckFilmPurchased(p, userId, filmId) ==
  /\ Begin(p, [NoInv EXCEPT !.op = "checkFilmPurchased", !.userId = userId,
                            !.filmId = filmId], "cp_getUser")
  /\ UNCHANGED << dbVars, limVars >>

\* Variant: the account is not looked up.
CpGetUser_Unchecked(p) ==
  /\ pc[p] = "cp_getUser"
  /\ Goto(p, "cp_check")
  /\ UNCHANGED << dbVars, limVars >>

CpGetUser(p) ==
  /\ pc[p] = "cp_getUser"
  /\ IF findById(users, inv[p].userId) = {}
       THEN Finish(p, ApiError(404))
       ELSE Goto(p, "cp_check")
  /\ UNCHANGED << dbVars, limVars >>

\* purchaseRepository.checkIfPurchased
CpCheck(p) ==
  /\ pc[p] = "cp_check"
  /\ Finish(p, OkWith(checkIfPurchased(inv[p].userId, inv[p].filmId)))
  /\ UNCHANGED << dbVars, limVars >>

checkFilmPurchased(p) == CpGetUser(p) \/ CpCheck(p)

-----------------------------------------------------------------------------
(* UserService.getUserPurchasedFilms / UserRepository.getPurchasedFilms *)

StartGetUserPurchasedFilms(p, userId, page, limit) ==
  /\ Begin(p, [NoInv EXCEPT !.op = "getUserPurchasedFilms",
                            !.userId = userId, !.page = page,
                            !.limit = limit], "gp_getUser")
  /\ UNCHANGED << dbVars, limVars >>

GpGetUser(p) ==
  /\ pc[p] = "gp_getUser"
  /\ IF findById(users, inv[p].userId) = {}
       THEN Finish(p, ApiError(404))
       ELSE Goto(p, "gp_query")
  /\ UNCHANGED << dbVars, limVars >>

\* include: { film: true }
FilmOf(purchase) == CHOOSE r \in films : r.id = purchase.filmId

\* getPurchasedFilms: findMany and count in one $transaction.
GpQuery(p) ==
  /\ pc[p] = "gp_query"
  /\ LET mine == PurchasesOf(inv[p].userId)
         skip == (inv[p].page - 1) * inv[p].limit
         total == Cardinality(mine)
     IN IF skip < 0
          THEN \E e \in SkipRefusals : Finish(p, e)
          ELSE \E ord \in OrderedDesc(mine) :
                 LET found == FindMany(ord, skip, inv[p].limit)
                 IN Finish(p, OkWith(
                      [films |-> [i \in DOMAIN found |-> FilmOf(found[i])],
                       total |-> total, page |-> inv[p].page,
                       totalPages |-> CeilDiv(total, inv[p].limit)]))
  /\ UNCHANGED << dbVars, limVars >>

getUserPurchasedFilms(p) == GpGetUser(p) \/ GpQuery(p)

-----------------------------------------------------------------------------
(* UserService.getUserPurchaseHistory *)

StartGetUserPurchaseHistory(p, userId) ==
  /\ Begin(p, [NoInv EXCEPT !.op = "getUserPurchaseHistory",
                            !.userId = userId], "gh_getUser")
  /\ UNCHANGED << dbVars, limVars >>

GhGetUser(p) ==
  /\ pc[p] = "gh_getUser"
  /\ IF findById(users, inv[p].userId) = {}
       THEN Finish(p, ApiError(404))
       ELSE Goto(p, "gh_query")
  /\ UNCHANGED << dbVars, limVars >>

\* purchaseRepository.getUserPurchaseHistory
GhQuery(p) ==
  /\ pc[p] = "gh_query"
  /\ \E ord \in OrderedDesc(PurchasesOf(inv[p].userId)) :
       Finish(p, OkWith([i \in DOMAIN ord |->
                          [purchase |-> ord[i], film |-> FilmOf(ord[i])]]))
  /\ UNCHANGED << dbVars, limVars >>

getUserPurchaseHistory(p) == GhGetUser(p) \/ GhQuery(p)

-----------------------------------------------------------------------------
(* rateLimiter *)

\* The rateLimiter(options) instances of film-routes.ts and user-routes.ts.
RouteLimiters ==
  [purchaseRateLimiter |-> [windowMs |-> 15 * 60 * 1000, max |-> 10],
   createRateLimiter |-> [windowMs |-> 15 * 60 * 1000, max |-> 20],
   createAccountRateLimiter |-> [windowMs |-> 60 * 60 * 1000, max |-> 5],
   queryRateLimiter |-> [windowMs |-> 1 * 60 * 1000, max |-> 50]]

\* req.ip || 'unknown'
Keys == { "10.0.0.1", "unknown" }

\* Variant: entry.resetTime <= now.
WindowExpired_Inclusive(key, t) ==
  key \notin DOMAIN store \/ store[key].resetTime <= t

\* !entry || entry.resetTime < now
WindowExpired(key, t) == key \notin DOMAIN store \/ store[key].resetTime < t

\* Variant: entry.count >= max.
Exceeds_Inclusive(count, max) == count >= max

\* entry.count > max
Exceeds(count, max) == count > max

\* Variant: the increment is made on a copy and never stored.
NextEntry_NotIncremented(options, key, t) ==
  IF WindowExpired(key, t)
    THEN [count |-> 1, resetTime |-> t + options.windowMs]
    ELSE store[key]

\* The entry the middleware stores for key at time t.
NextEntry(options, key, t) ==
  IF WindowExpired(key, t)
    THEN [count |-> 1, resetTime |-> t + options.windowMs]
    ELSE [count |-> store[key].count + 1, resetTime |-> store[key].resetTime]

\* Requests that have arrived and whose middleware has not run yet.
Queued == { q \in Procs : pc[q] = "rl_queued" }

\* next(new ApiError(429, message)) or next()
Outcome(options, entry) ==
  IF Exceeds(entry.count, options.max) THEN ApiError(429) ELSE Ok

\* The middleware body: synchronous, it runs to completion once entered.
Admit(l, key) ==
  LET options == limiters[l]
      entry == NextEntry(options, key, now)
  IN /\ store' = [k \in DOMAIN store \cup { key } |->
                    IF k = key THEN entry ELSE store[k]]
     /\ log' = Append(log,
                 [limiter |-> l, key |-> key, time |-> now,
                  count |-> entry.count, resetTime |-> entry.resetTime,
                  remaining |-> Max(0, options.max - entry.count),
                  outcome |-> Outcome(options, entry),
                  queued |-> Cardinality(Queued)])

\* One request passing through limiter l: the middleware body.
Check(l, key) ==
  /\ Len(log) < MaxChecks
  /\ Admit(l, key)
  /\ UNCHANGED << limiters, now, dbVars, procVars >>

\* A request of caller key arrives; its middleware is yet to run.  It takes
\* the first slot that holds no request in flight.
RlArrive(p, l, key) ==
  /\ \A q \in Procs : q < p => ~Free(q)
  /\ Begin(p, [NoInv EXCEPT !.op = "rateLimiter", !.limiter = l,
                            !.key = key], "rl_queued")
  /\ UNCHANGED << before, dbVars, limVars >>

\* The event loop runs the middleware of one of the requests in flight.
RlRun(p) ==
  /\ pc[p] = "rl_queued"
  /\ Admit(inv[p].limiter, inv[p].key)
  /\ Finish(p, Outcome(limiters[inv[p].limiter],
                       NextEntry(limiters[inv[p].limiter], inv[p].key, now)))
  /\ UNCHANGED << limiters, now, dbVars >>

\* Date.now() advances by d.
Tick(d) ==
  /\ now < MaxTicks * d
  /\ now' = now + d
  /\ UNCHANGED << limiters, store, log, dbVars, procVars >>

-----------------------------------------------------------------------------
(* Specifications *)

NoResponse == [statusCode |-> 0, message |-> << >>, isOperational |-> FALSE]

\* before: the request that started last and the relations it started from.
NoSnapshot == [proc |-> 0, users |-> {}, films |-> {}, purchases |-> << >>]

Snapshot(p) ==
  [proc |-> p, users |-> users, films |-> films, purchases |-> purchases]

LimiterIdle ==
  /\ limiters = RouteLimiters
  /\ store = << >>
  /\ now = 0
  /\ log = << >>

ServiceIdle ==
  /\ users = {}
  /\ films = {}
  /\ purchases = << >>
  /\ pc = [p \in Procs |-> "idle"]
  /\ inv = [p \in Procs |-> NoInv]
  /\ result = [p \in Procs |-> Pending]
  /\ calls = 0
  /\ before = NoSnapshot
  /\ response = [p \in Procs |-> NoResponse]
  /\ pages = << >>

Init ==
  /\ LimiterIdle
  /\ users = {}
  /\ films = { Film(id) : id \in FilmIds }
  /\ purchases = << >>
  /\ pc = [p \in Procs |-> "idle"]
  /\ inv = [p \in Procs |-> NoInv]
  /\ result = [p \in Procs |-> Pending]
  /\ calls = 0
  /\ before = NoSnapshot
  /\ response = [p \in Procs |-> NoResponse]
  /\ pages = << >>

\* Ids that createUser, updateUser and deleteUser are called with.
TargetIds == { << "x" >>, << "g" >> }

Start(p) ==
  \/ \E u \in UserIds, f \in FilmIds : StartPurchase(p, u, f)
  \/ \E f \in FilmIds : StartDeleteFilm(p, f)
  \/ \E u \in { Empty, << "x" >> }, e \in Emails, n \in Names :
       StartCreateUser(p, u, e, n)
  \/ \E u \in TargetIds, e \in Emails :
       StartUpdateUser(p, u, TRUE, e, FALSE, Empty)
  \/ \E u \in TargetIds : StartDeleteUser(p, u)

Step(p) ==
  \/ purchaseFilm(p)
  \/ deleteFilm(p)
  \/ createUser(p)
  \/ updateUser(p)
  \/ deleteUser(p)

\* Requests run concurrently and interleave at every await.
Next ==
  \E p \in Procs :
    \/ calls < MaxCalls /\ Start(p) /\ UNCHANGED before
    \/ Step(p)

Spec == Init /\ [][Next]_vars

\* One request at a time: an invocation starts when the last has returned.
NextSeq ==
  \/ calls < MaxSeqCalls /\ Start(1) /\ before' = Snapshot(1)
  \/ Step(1)

SpecSeq == Init /\ [][NextSeq]_vars

-----------------------------------------------------------------------------
(* Two purchases of the same pair *)

NameN == << "n" >>

\* Account relations a pair of purchases by userId may start from: empty,
\* the account registered, the account provisioned by an earlier purchase,
\* another account registered with the address user-<id>@polaroid.com.
PreUsers(userId) ==
  { {},
    { UserRow(userId, MailA, NameN) },
    { UserRow(userId, PlaceholderEmail(userId), PlaceholderName(userId)) },
    { UserRow(<< "g" >>, toLowerCase(PlaceholderEmail(userId)), NameN) } }

InitTwoPurchase ==
  LimiterIdle /\ \E u \in UserIds, f \in FilmIds : \E us \in PreUsers(u) :
    /\ users = us
    /\ films = { Film(id) : id \in FilmIds }
    /\ purchases = << >>
    /\ pc = [p \in Procs |-> IF p \in { 1, 2 } THEN "pf_getFilm" ELSE "idle"]
    /\ inv = [p \in Procs |->
                IF p \in { 1, 2 }
                  THEN [NoInv EXCEPT !.op = "purchaseFilm", !.userId = u,
                                     !.filmId = f]
                  ELSE NoInv]
    /\ result = [p \in Procs |-> Pending]
    /\ calls = 2
    /\ before = [NoSnapshot EXCEPT !.users = us,
                                   !.films = { Film(id) : id \in FilmIds }]
    /\ response = [p \in Procs |-> NoResponse]
    /\ pages = << >>

NextTwoPurchase == \E p \in Procs : purchaseFilm(p)

SpecTwoPurchase == InitTwoPurchase /\ [][NextTwoPurchase]_vars

-----------------------------------------------------------------------------
(* Two createUser calls with the same address up to letter case *)

CaseVariants == { MailA, MailUpperA }

\* data.userId of the two calls: both generated, one supplied, both supplied.
IdPairs ==
  { << Empty, Empty >>, << << "x" >>, Empty >>, << Empty, << "x" >> >>,
    << << "x" >>, << "X" >> >> }

\* Accounts present beforehand: none, one provisioned by a purchase, one
\* registered with another address.
OtherUsers ==
  { {},
    { UserRow(<< "U" >>, PlaceholderEmail(<< "U" >>),
              PlaceholderName(<< "U" >>)) },
    { UserRow(<< "u" >>, << "b", "@", "b", ".", "c" >>, NameN) } }

CreateInv(userId, email, name, generated) ==
  [NoInv EXCEPT !.op = "createUser", !.userId = userId, !.email = email,
                !.name = name,
                !.id = IF userId # Empty THEN userId ELSE generated]

InitTwoCreate ==
  LimiterIdle /\ \E e1 \in CaseVariants, e2 \in CaseVariants, ids \in IdPairs,
     us \in OtherUsers :
    /\ users = us
    /\ films = { Film(id) : id \in FilmIds }
    /\ purchases = << >>
    /\ pc = [p \in Procs |->
               IF p \in { 1, 2 } THEN "cu_findByEmail" ELSE "idle"]
    /\ inv = [p \in Procs |->
                IF p = 1 THEN CreateInv(ids[1], e1, NameN, << "g" >>)
                ELSE IF p = 2 THEN CreateInv(ids[2], e2, NameN, << "h" >>)
                ELSE NoInv]
    /\ result = [p \in Procs |-> Pending]
    /\ calls = 2
    /\ before = [NoSnapshot EXCEPT !.users = us,
                                   !.films = { Film(id) : id \in FilmIds }]
    /\ response = [p \in Procs |-> NoResponse]
    /\ pages = << >>

NextTwoCreate == \E p \in Procs : createUser(p)

SpecTwoCreate == InitTwoCreate /\ [][NextTwoCreate]_vars

-----------------------------------------------------------------------------
(* Admission checks *)

\* One limiter, its options drawn from small ranges, and several callers.
InitLimiter ==
  /\ ServiceIdle
  /\ \E w \in 1..MaxWindow, m \in 1..MaxMax :
       limiters = [limiter |-> [windowMs |-> w, max |-> m]]
  /\ store = << >>
  /\ now = 0
  /\ log = << >>

NextLimiter ==
  \/ \E k \in Keys : Check("limiter", k)
  \/ Tick(1)

SpecLimiter == InitLimiter /\ [][NextLimiter]_vars

\* Requests in flight together: each arrives, and the event loop runs the
\* middleware bodies of the arrived requests in any order.
NextBurst ==
  \/ \E p \in Procs, k \in Keys :
       calls < MaxBurst /\ RlArrive(p, "limiter", k)
  \/ \E p \in Procs : RlRun(p)
  \/ Tick(1)

SpecBurst == InitLimiter /\ [][NextBurst]_vars

-----------------------------------------------------------------------------
(* Listing the catalogue page by page *)

SweepDtos ==
  { [FilmData EXCEPT !.title = t, !.price = c] :
      t \in { << "a" >>, << " " >> }, c \in { -1, 1 } }

PageSizes == { 1, 2 }

\* Films are created while nobody lists; a client then asks for page 1, 2,
\* ... with one page size, and may start over at any time.
NextSweep ==
  \/ /\ pages = << >>
     /\ calls < MaxSweepCalls
     /\ \E d \in SweepDtos : StartCreateFilm(1, d)
     /\ UNCHANGED before
  \/ createFilm(1)
  \/ pages = << >> /\ Tick(1)
  \/ /\ calls < MaxSweepCalls
     /\ \E limit \in PageSizes :
          /\ pages # << >> => limit = pages[1].limit
          /\ StartGetAllFilms(1, Len(pages) + 1, limit)
     /\ UNCHANGED before
  \/ /\ GfQuery(1)
     /\ pages' = Append(pages, [limit |-> inv[1].limit,
                                value |-> result'[1].value])
  \/ /\ pages # << >>
     /\ Free(1)
     /\ pages' = << >>
     /\ UNCHANGED << pc, inv, result, calls, before, response, dbVars,
                     limVars >>

InitSweep == ServiceIdle /\ LimiterIdle

SpecSweep == InitSweep /\ [][NextSweep]_vars

-----------------------------------------------------------------------------
(* Purchases, price changes and the statistics of an account *)

NewPrice(price) == PartialFilm({ "price" }, << >>, << >>, price, << >>)

\* One request at a time, the clock moving between requests.
NextStats ==
  \/ /\ calls < MaxStatCalls
     /\ \/ \E f \in FilmIds : StartPurchase(1, << "x" >>, f)
        \/ StartUpdateFilm(1, "f1", NewPrice(2))
        \/ \E u \in UserIds : StartGetUserStats(1, u)
     /\ before' = Snapshot(1)
  \/ purchaseFilm(1)
  \/ updateFilm(1)
  \/ getUserStats(1)
  \/ Free(1) /\ Tick(1)

SpecStats == Init /\ [][NextStats]_vars

-----------------------------------------------------------------------------
(* createUser followed by getUserByEmail *)

MailShort == << "a" >>

NamePadded == << " ", "N", " " >>

NameBlank == << " " >>

\* One request at a time: accounts are registered or provisioned by a
\* purchase, and a createUser is followed by getUserByEmail of the
\* lowercased address.
NextRoundTrip ==
  \/ /\ calls < MaxTripCalls
     /\ \/ \E u \in { Empty, << "x" >> },
              e \in Emails \cup { MailA, MailShort },
              n \in { NameN, NamePadded, NameBlank } :
               StartCreateUser(1, u, e, n)
        \/ StartPurchase(1, << "X" >>, "f1")
     /\ before' = Snapshot(1)
  \/ /\ Done(1, "createUser")
     /\ StartGetUserByEmail(1, toLowerCase(inv[1].email))
     /\ UNCHANGED before
  \/ createUser(1)
  \/ purchaseFilm(1)
  \/ getUserByEmail(1)

SpecRoundTrip == Init /\ [][NextRoundTrip]_vars

-----------------------------------------------------------------------------
(* updateUser of registered and provisioned accounts *)

\* data.email of updateUser: undefined, or one of these.
UpdateEmails ==
  { MailUpperA, PlaceholderEmail(<< "x" >>), PlaceholderEmail(<< "X" >>),
    MailShort }

\* data.name of updateUser: undefined, or one of these.
UpdateNames == { NamePadded, NameBlank }

\* One request at a time: accounts are registered or provisioned by a
\* purchase, then updated.
NextUpdateUser ==
  \/ /\ calls < MaxUpdateCalls
     /\ \/ \E e \in Emails : StartCreateUser(1, Empty, e, NameN)
        \/ \E u \in UserIds : StartPurchase(1, u, "f1")
        \/ \E u \in UserIds \cup { << "g" >> } :
             \/ \E e \in UpdateEmails :
                  StartUpdateUser(1, u, TRUE, e, FALSE, Empty)
             \/ \E n \in UpdateNames :
                  StartUpdateUser(1, u, FALSE, Empty, TRUE, n)
             \/ \E e \in UpdateEmails, n \in UpdateNames :
                  StartUpdateUser(1, u, TRUE, e, TRUE, n)
     /\ before' = Snapshot(1)
  \/ createUser(1)
  \/ purchaseFilm(1)
  \/ updateUser(1)

SpecUpdateUser == Init /\ [][NextUpdateUser]_vars

-----------------------------------------------------------------------------
(* updateFilm with any subset of the fields *)

TitlePadded == << " ", "t", " " >>

DescriptionPadded == << "d", " " >>

\* data.price of updateFilm when it is given.
UpdatePrices == { -1, 0, 2 }

\* Partial<CreateFilmDto> values: every subset of the four fields.
FilmUpdates ==
  { PartialFilm(g, TitlePadded, DescriptionPadded, pr, << "v" >>) :
      g \in SUBSET FilmFields, pr \in UpdatePrices }

\* The same values with one price where no price is given.
FilmUpdatesGiven ==
  { d \in FilmUpdates : "price" \notin d.given => d.price = 0 }

\* One request at a time: films are bought, the clock advances, and a film
\* that exists or one that does not is updated.
NextUpdateFilm ==
  \/ /\ calls < MaxFilmCalls
     /\ \/ StartPurchase(1, << "x" >>, "f1")
        \/ \E d \in FilmUpdatesGiven : StartUpdateFilm(1, "f1", d)
        \/ StartUpdateFilm(1, "f3", PartialFilm({ "price" }, << >>, << >>,
                                                -1, << >>))
     /\ before' = Snapshot(1)
  \/ purchaseFilm(1)
  \/ updateFilm(1)
  \/ Free(1) /\ Tick(1)

SpecUpdateFilm == Init /\ [][NextUpdateFilm]_vars

-----------------------------------------------------------------------------
(* GET /films and GET /users with any page and limit *)

Queries ==
  [page : { Missing, Given(-1), Given(0), Given(2) },
   limit : { Missing, Given(-1), Given(0), Given(1) }]

\* One request at a time: films and accounts are created and listed.
NextListQuery ==
  \/ /\ calls < MaxListCalls
     /\ \/ StartCreateFilm(1, FilmData)
        \/ \E e \in Emails, n \in Names : StartCreateUser(1, Empty, e, n)
        \/ \E q \in Queries : GetFilms(1, q)
        \/ \E q \in Queries : GetUsers(1, q)
     /\ UNCHANGED before
  \/ createFilm(1)
  \/ createUser(1)
  \/ getAllFilms(1)
  \/ getAllUsers(1)
  \/ Tick(1)

SpecListQuery == InitSweep /\ [][NextListQuery]_vars

\* getAllUsers next to createUser and deleteUser of other requests.
NextListUsers ==
  \E p \in Procs :
    \/ /\ calls < MaxCalls
       /\ \/ \E e \in Emails, n \in Names : StartCreateUser(p, Empty, e, n)
          \/ \E u \in GeneratedIds : StartDeleteUser(p, u)
          \/ \E limit \in PageSizes : StartGetAllUsers(p, 1, limit, NoQuery)
       /\ UNCHANGED before
    \/ createUser(p)
    \/ deleteUser(p)
    \/ getAllUsers(p)

SpecListUsers == InitSweep /\ [][NextListUsers]_vars

\* The limiters of the routes, one caller, the clock moving by minutes.
InitRoutes == ServiceIdle /\ LimiterIdle

Minute == 60 * 1000

NextRoutes ==
  \/ \E l \in DOMAIN RouteLimiters : Check(l, "10.0.0.1")
  \/ Tick(Minute)

SpecRoutes == InitRoutes /\ [][NextRoutes]_vars

-----------------------------------------------------------------------------
(* Errors reaching the error handler *)

Messages == { << "Bad Request" >>, << "Something went wrong" >> }

\* Errors a handler may reject with.
ThrownErrors ==
  { NewApiError(c, m, o) :
      c \in { 400, 404, 409, 429, 500 }, m \in Messages, o \in BOOLEAN }
  \cup { PrismaKnown(c, t) :
           c \in { "P2002", "P2025", "P2003", "P2016", "P2024" },
           t \in { "", "email" } }
  \cup { OtherError(k, m) :
           k \in { "PrismaClientValidationError",
                   "PrismaClientInitializationError",
                   "PrismaClientUnknownRequestError",
                   "PrismaClientRustPanicError", "Error" },
           m \in Messages }

\* asyncHandler: the handler's promise rejects with error and the
\* rejection is passed to next.
Throw(p, error) ==
  /\ Free(p)
  /\ calls' = calls + 1
  /\ inv' = [inv EXCEPT ![p] = [NoInv EXCEPT !.op = "handler"]]
  /\ pc' = [pc EXCEPT ![p] = "thrown"]
  /\ result' = [result EXCEPT ![p] = error]
  /\ response' = [response EXCEPT ![p] = NoResponse]
  /\ UNCHANGED << before, pages, dbVars, limVars >>

\* errorHandler answers the request.
Respond(p) ==
  /\ pc[p] = "thrown"
  /\ pc' = [pc EXCEPT ![p] = "done"]
  /\ response' = [response EXCEPT ![p] = errorHandler(result[p])]
  /\ UNCHANGED << inv, result, calls, before, pages, dbVars, limVars >>

NextErrors ==
  \E p \in Procs :
    \/ calls < MaxCalls /\ \E e \in ThrownErrors : Throw(p, e)
    \/ Respond(p)

SpecErrors == InitRoutes /\ [][NextErrors]_vars

-----------------------------------------------------------------------------
(* Every operation that might touch a purchase, interleaved *)

StartKeep(p) ==
  \/ \E f \in FilmIds : StartPurchase(p, << "x" >>, f)
  \/ StartUpdateFilm(p, "f1", NewPrice(2))
  \/ StartDeleteFilm(p, "f1")
  \/ StartCreateUser(p, << "x" >>, MailA, NameN)
  \/ StartUpdateUser(p, << "x" >>, TRUE, MailUpperA, TRUE, NamePadded)
  \/ StartDeleteUser(p, << "x" >>)
  \/ StartCheckFilmPurchased(p, << "x" >>, "f1")

StepKeep(p) ==
  \/ purchaseFilm(p)
  \/ updateFilm(p)
  \/ deleteFilm(p)
  \/ createUser(p)
  \/ updateUser(p)
  \/ deleteUser(p)
  \/ checkFilmPurchased(p)

NextKeep ==
  \E p \in Procs :
    \/ calls < MaxKeepCalls /\ StartKeep(p) /\ UNCHANGED before
    \/ StepKeep(p)

SpecKeep == Init /\ [][NextKeep]_vars

-----------------------------------------------------------------------------
(* createFilm and updateFilm with any price and title *)

TitleBlank == << " " >>

\* updateFilm values with a title, a price or both, good and bad.
CatalogueUpdates ==
  { PartialFilm(g, t, << >>, pr, << >>) :
      g \in (SUBSET { "title", "price" }) \ { {} },
      t \in { TitlePadded, TitleBlank, Empty },
      pr \in UpdatePrices }

\* One request at a time: films are created and updated.
NextCatalogue ==
  \/ /\ calls < MaxCatalogueCalls
     /\ \/ \E d \in SweepDtos : StartCreateFilm(1, d)
        \/ \E f \in { "f1", "f3" }, d \in CatalogueUpdates :
             StartUpdateFilm(1, f, d)
     /\ before' = Snapshot(1)
  \/ createFilm(1)
  \/ updateFilm(1)

SpecCatalogue == Init /\ [][NextCatalogue]_vars

-----------------------------------------------------------------------------
(* The operations that look the account up first *)

\* page and limit of getUserPurchasedFilms.
PurchasedPages == { << 1, 1 >>, << 2, 1 >>, << 0, 1 >> }

\* One request at a time: accounts come to exist through purchases and
\* registration, and the operations are called for ids with and without an
\* account.
NextLookup ==
  \/ /\ calls < MaxLookupCalls
     /\ \/ \E f \in FilmIds : StartPurchase(1, << "x" >>, f)
        \/ StartCreateUser(1, << "X" >>, MailA, NameN)
        \/ \E u \in UserIds :
             \/ \E pl \in PurchasedPages :
                  StartGetUserPurchasedFilms(1, u, pl[1], pl[2])
             \/ StartGetUserStats(1, u)
             \/ StartGetUserPurchaseHistory(1, u)
             \/ StartCheckFilmPurchased(1, u, "f1")
             \/ StartUpdateUser(1, u, TRUE, MailUpperA, TRUE, NamePadded)
             \/ StartDeleteUser(1, u)
     /\ before' = Snapshot(1)
  \/ purchaseFilm(1)
  \/ createUser(1)
  \/ getUserPurchasedFilms(1)
  \/ getUserStats(1)
  \/ getUserPurchaseHistory(1)
  \/ checkFilmPurchased(1)
  \/ updateUser(1)
  \/ deleteUser(1)
  \/ Free(1) /\ Tick(1)

SpecLookup == Init /\ [][NextLookup]_vars

-----------------------------------------------------------------------------
(* purchaseFilm and deleteFilm in flight together *)

\* Every request slot serves one invocation, so that inv records all the
\* invocations there were.
NextRace ==
  \E p \in Procs :
    \/ /\ pc[p] = "idle"
       /\ \/ \E u \in UserIds, f \in FilmIds : StartPurchase(p, u, f)
          \/ \E f \in FilmIds : StartDeleteFilm(p, f)
       /\ UNCHANGED before
    \/ purchaseFilm(p)
    \/ deleteFilm(p)

SpecRace == Init /\ [][NextRace]_vars

-----------------------------------------------------------------------------
(* Properties *)

Indices(seq) == DOMAIN seq

SamePair(a, b) == a.userId = b.userId /\ a.filmId = b.filmId

\* C1: in every reachable state, however purchaseFilm, createUser,
\* deleteFilm and deleteUser interleave, the Purchase relation holds at most
\* one row for any (userId, filmId) pair.
C1_OnePurchasePerPair ==
  \A i \in Indices(purchases), j \in Indices(purchases) :
    SamePair(purchases[i], purchases[j]) => i = j

\* A purchase lost the race after its own check and was stopped by the
\* storage constraint.
C1_Witness ==
  \E p \in Procs :
    /\ Done(p, "purchaseFilm")
    /\ result[p] = PrismaKnown("P2002", "userId_filmId")
    /\ checkIfPurchased(inv[p].userId, inv[p].filmId)

\* The two purchases of the pair have both returned.
BothDone == pc[1] = "done" /\ pc[2] = "done"

\* C2: two purchaseFilm invocations of the same pair on an existing film,
\* the pair not purchased before, interleaved in any order, whether the
\* account exists or is provisioned: exactly one returns the created
\* Purchase and the other fails with status 409.
C2_OneCreatedOneConflict ==
  BothDone =>
    \E p \in { 1, 2 }, q \in { 1, 2 } :
      /\ p # q
      /\ result[p] = Ok
      /\ Status(result[q]) = 409

HadUser(id) == \E r \in before.users : r.id = id

HadFilm(id) == \E r \in before.films : r.id = id

HadPurchaseOfFilm(id) ==
  \E i \in Indices(before.purchases) : before.purchases[i].filmId = id

HadPurchase(userId, filmId) ==
  \E i \in Indices(before.purchases) :
    /\ before.purchases[i].userId = userId
    /\ before.purchases[i].filmId = filmId

\* The invocation that started last, alone, has returned.
Returned(p, op) == p = before.proc /\ Done(p, op)

\* C3: purchaseFilm started in any reachable state with an existing film
\* and a userId that no account has creates the account with that id, the
\* placeholder email and name, and returns the created Purchase.
C3_ProvisionsAndSucceeds ==
  \A p \in Procs :
    ( /\ Returned(p, "purchaseFilm")
      /\ HadFilm(inv[p].filmId)
      /\ ~HadUser(inv[p].userId) )
    => /\ result[p] = Ok
       /\ UserRow(inv[p].userId, PlaceholderEmail(inv[p].userId),
                  PlaceholderName(inv[p].userId)) \in users
       /\ checkIfPurchased(inv[p].userId, inv[p].filmId)

\* C4: two createUser invocations whose emails are equal up to letter case
\* and not registered, with valid names and ids that no account holds, run
\* one after the other or interleaved: exactly one account is created and
\* exactly one invocation fails with status 409.
C4_OneCreatedOneConflict ==
  BothDone =>
    /\ \E p \in { 1, 2 }, q \in { 1, 2 } :
         /\ p # q
         /\ result[p] = Ok
         /\ NewUserRow(inv[p]) \in users
         /\ Status(result[q]) = 409
    /\ Cardinality(users) = Cardinality(before.users) + 1

\* Both calls passed the findByEmail check and the second insert was
\* refused by the unique index on email.
C4_Witness ==
  /\ BothDone
  /\ \E q \in { 1, 2 } : result[q] = PrismaKnown("P2002", "email")

\* C5: in every reachable state every stored account's email is lowercase
\* and no two accounts have emails equal up to letter case.
C5_EmailsLowercaseUnique ==
  /\ \A r \in users : r.email = toLowerCase(r.email)
  /\ \A r1 \in users, r2 \in users :
       toLowerCase(r1.email) = toLowerCase(r2.email) => r1.id = r2.id

RefusedDelete(p) ==
  /\ Returned(p, "deleteFilm")
  /\ HadFilm(inv[p].filmId)
  /\ HadPurchaseOfFilm(inv[p].filmId)

C8_PurchasesReferenceRows ==
  \A i \in Indices(purchases) :
    /\ findById(users, purchases[i].userId) # {}
    /\ findById(films, purchases[i].filmId) # {}

\* A deleteFilm that counted no purchase was overtaken by a purchase and
\* stopped by the foreign key.
C8_Witness ==
  \E p \in Procs :
    /\ Done(p, "deleteFilm")
    /\ result[p] = PrismaKnown("P2003", "Purchase_filmId_fkey")
    /\ getFilmPurchaseCount(inv[p].filmId) > 0


\* The checks of caller k that passed through limiter l, in order.
SubLog(l, k) == SelectSeq(log, LAMBDA e : e.limiter = l /\ e.key = k)

\* The check that opened the window check i of L falls in: the first check,
\* or the first one later than a full window after the previous opener.
RECURSIVE WindowOpener(_, _, _)
WindowOpener(L, i, windowMs) ==
  IF i = 1 THEN 1
  ELSE LET j == WindowOpener(L, i - 1, windowMs)
       IN IF L[i].time > L[j].time + windowMs THEN i ELSE j

\* How many checks of L, check i included, fall in the window of check i.
InWindow(L, i, windowMs) == i - WindowOpener(L, i, windowMs) + 1

\* C9: for one limiter and one caller, starting with no entry: the first
\* max checks inside a window are admitted, every further check inside it
\* is rejected with status 429, and the first check after the window has
\* elapsed is admitted with the count back at 1.
C9_FixedWindowAdmission ==
  \A l \in DOMAIN limiters, k \in Keys :
    LET L == SubLog(l, k)
        o == limiters[l]
    IN \A i \in DOMAIN L :
         /\ L[i].outcome = Ok <=> InWindow(L, i, o.windowMs) <= o.max
         /\ L[i].outcome # Ok =>
              L[i].outcome = ApiError(429) /\ Status(L[i].outcome) = 429
         /\ WindowOpener(L, i, o.windowMs) = i =>
              L[i].count = 1 /\ L[i].outcome = Ok

\* A caller was rejected and, once the window had elapsed, admitted again.
C9_Witness ==
  \E k \in Keys :
    LET L == SubLog("limiter", k)
    IN \E i \in DOMAIN L, j \in DOMAIN L :
         /\ i < j
         /\ L[i].outcome = ApiError(429)
         /\ L[j].time > L[i].resetTime
         /\ L[j].outcome = Ok
         /\ L[j].count = 1

\* C10: for a fixed caller, each limiter counts only the requests that pass
\* through it: count and window of a check are those of the limiter's own
\* requests, and a request is rejected only when more than the limiter's
\* max of its own requests fell in its own current window.
C10_LimitersCountOwnRequests ==
  \A l \in DOMAIN limiters, k \in Keys :
    LET L == SubLog(l, k)
        o == limiters[l]
    IN \A i \in DOMAIN L :
         /\ L[i].count = InWindow(L, i, o.windowMs)
         /\ L[i].resetTime =
              L[WindowOpener(L, i, o.windowMs)].time + o.windowMs
         /\ L[i].outcome # Ok => InWindow(L, i, o.windowMs) > o.max

\* The checks of caller k in the window its stored entry describes.
CurrentWindow(l, k) ==
  SelectSeq(SubLog(l, k),
            LAMBDA e : e.time >= store[k].resetTime - limiters[l].windowMs)

Rejected(L) == SelectSeq(L, LAMBDA e : e.outcome = ApiError(429))

\* C11: however the admission checks of requests in flight together are
\* ordered, after n checks of one key inside one window the stored count is
\* exactly n and exactly max(0, n - max) of them were rejected.
C11_NoLostUpdate ==
  \A l \in DOMAIN limiters, k \in DOMAIN store :
    LET n == Len(CurrentWindow(l, k))
    IN /\ store[k].count = n
       /\ Len(Rejected(CurrentWindow(l, k))) = Max(0, n - limiters[l].max)
       /\ \A e \in { Rejected(CurrentWindow(l, k))[i] :
                       i \in DOMAIN Rejected(CurrentWindow(l, k)) } :
            e.count > limiters[l].max

\* A request was rejected while another request was still waiting for its
\* own check, and that one has been checked too.
C11_Witness ==
  \E k \in DOMAIN store :
    LET L == CurrentWindow("limiter", k)
    IN /\ Queued = {}
       /\ Len(L) > limiters["limiter"].max
       /\ \E i \in DOMAIN L :
            L[i].outcome = ApiError(429) /\ L[i].queued > 1

\* Request p threw and errorHandler has answered it.
Answered(p) == Done(p, "handler")

\* Prisma.PrismaClientKnownRequestError with the given code.
IsKnown(error, code) ==
  error.kind = "PrismaClientKnownRequestError" /\ error.code = code

\* C12: the error handler answers a unique-constraint violation (P2002)
\* with 409, a missing record on update or delete (P2025) with 404 and a
\* foreign-key violation (P2003) with 400, each marked operational; an
\* ApiError keeps its own status, message and operational flag.
C12_StorageAndDomainErrors ==
  \A p \in Procs :
    Answered(p) =>
      /\ IsKnown(result[p], "P2002") =>
           response[p].statusCode = 409 /\ response[p].isOperational
      /\ IsKnown(result[p], "P2025") =>
           response[p].statusCode = 404 /\ response[p].isOperational
      /\ IsKnown(result[p], "P2003") =>
           response[p].statusCode = 400 /\ response[p].isOperational
      /\ result[p].kind = "ApiError" =>
           /\ response[p].statusCode = result[p].statusCode
           /\ response[p].message = result[p].message
           /\ response[p].isOperational = result[p].isOperational

\* A unique-constraint violation and an ApiError made non-operational have
\* both been answered.
C12_Witness ==
  \E p \in Procs, q \in Procs :
    /\ Answered(p) /\ IsKnown(result[p], "P2002")
    /\ response[p].statusCode = 409
    /\ Answered(q) /\ result[q].kind = "ApiError"
    /\ ~result[q].isOperational

\* An explicit domain error or one of the three storage failures of C12.
Recognized(error) ==
  \/ error.kind = "ApiError"
  \/ IsKnown(error, "P2002")
  \/ IsKnown(error, "P2025")
  \/ IsKnown(error, "P2003")

Internal(r) == r.statusCode = 500 /\ ~r.isOperational

\* C13 as stated: every error that is neither an ApiError nor a P2002,
\* P2025 or P2003 storage failure is answered with 500 and marked
\* non-operational.
C13_AllOthersInternal ==
  \A p \in Procs :
    Answered(p) /\ ~Recognized(result[p]) => Internal(response[p])

RECURSIVE Flatten(_)
Flatten(seqs) ==
  IF seqs = << >> THEN << >> ELSE Head(seqs) \o Flatten(Tail(seqs))

\* The films of the pages returned so far, in the order returned.
Listed == Flatten([i \in DOMAIN pages |-> pages[i].value.films])

\* Pages 1..ceil(N/P) have been returned and no call is under way.
SweepDone ==
  /\ pages # << >>
  /\ Free(1)
  /\ Len(pages) = CeilDiv(Cardinality(films), pages[1].limit)

\* C14: with N films and nothing modified meanwhile, getAllFilms with page
\* size P over pages 1..ceil(N/P) returns every film exactly once, in
\* descending creation order across the pages, at most P films a page, and
\* every call reports total = N and totalPages = ceil(N/P).
C14_PagesCoverEachFilmOnce ==
  SweepDone =>
    LET N == Cardinality(films)
        P == pages[1].limit
    IN /\ \A i \in DOMAIN pages :
            /\ Len(pages[i].value.films) <= P
            /\ pages[i].value.total = N
            /\ pages[i].value.totalPages = CeilDiv(N, P)
       /\ Len(Listed) = N
       /\ { Listed[i] : i \in DOMAIN Listed } = films
       /\ \A i \in DOMAIN Listed, j \in DOMAIN Listed :
            i < j => Listed[i].createdAt >= Listed[j].createdAt

\* page and limit as the claim has them chosen: the default unless the
\* query gives a value of at least 1.
Effective(q, default) ==
  IF q.present /\ q.value >= 1 THEN q.value ELSE default

Listing(p) == Done(p, "getAllFilms") \/ Done(p, "getAllUsers")

\* C15: GET /films and GET /users with page or limit missing, zero or
\* negative behave as with page 1 and limit 20: the service is called with
\* the defaults in their place, the storage query is made and its page is
\* returned.
C15_OutOfRangeFallsBack ==
  \A p \in Procs :
    Listing(p) =>
      /\ inv[p].page = Effective(inv[p].query.page, 1)
      /\ inv[p].limit = Effective(inv[p].query.limit, 20)
      /\ result[p].kind = "ok"
      /\ result[p].value.page = Effective(inv[p].query.page, 1)
      /\ result[p].value.totalPages =
           CeilDiv(result[p].value.total, Effective(inv[p].query.limit, 20))

\* C16: under any interleaving with createUser and deleteUser, the total
\* getAllUsers returns is the number of accounts in the state its page was
\* read from.
C16_TotalFromPageSnapshot ==
  \A p \in Procs :
    Done(p, "getAllUsers") /\ result[p].kind = "ok" =>
      result[p].value.total = inv[p].seen

\* The purchases of account userId in the stored relation.
Mine(userId) ==
  { i \in Indices(purchases) : purchases[i].userId = userId }

RECURSIVE SumOfPrices(_)
SumOfPrices(is) ==
  IF is = {} THEN 0
  ELSE LET i == CHOOSE j \in is : TRUE
       IN (CHOOSE r \in films : r.id = purchases[i].filmId).price
            + SumOfPrices(is \ { i })

Times(userId) == { purchases[i].createdAt : i \in Mine(userId) }

Earliest(ts) == CHOOSE t \in ts : \A u \in ts : t <= u

Latest(ts) == CHOOSE t \in ts : \A u \in ts : t >= u

\* C17: getUserStats of an existing account returns the number of its
\* purchases, the sum of the prices the purchased films have when asked (a
\* price changed after the purchase counts as changed), and the earliest
\* and latest purchase time, both null exactly when it has no purchase.
C17_StatsOfStoredPurchases ==
  \A p \in Procs :
    Returned(p, "getUserStats") /\ HadUser(inv[p].userId) =>
      /\ result[p].kind = "ok"
      /\ LET stats == result[p].value
             mine == Mine(inv[p].userId)
         IN /\ stats.totalPurchases = Cardinality(mine)
            /\ stats.totalSpent = SumOfPrices(mine)
            /\ stats.firstPurchase = Null <=> mine = {}
            /\ stats.lastPurchase = Null <=> mine = {}
            /\ mine # {} =>
                 /\ stats.firstPurchase = Earliest(Times(inv[p].userId))
                 /\ stats.lastPurchase = Latest(Times(inv[p].userId))

\* Two purchases at different times, the price of one film raised after
\* it was bought, and the statistics asked for.
C17_Witness ==
  \E p \in Procs :
    /\ Returned(p, "getUserStats")
    /\ result[p].kind = "ok"
    /\ result[p].value.totalPurchases = 2
    /\ result[p].value.totalSpent = 3
    /\ result[p].value.firstPurchase < result[p].value.lastPurchase

\* getUserByEmail has returned and the call before it was a createUser
\* with a well-formed email that no account had, as given or lowercased, a
\* name that is not blank, and no id or one that no account had.
LookedUpCreated(p) ==
  /\ Done(p, "getUserByEmail")
  /\ inv[p].prev.inv.op = "createUser"
  /\ LET data == inv[p].prev.inv
     IN /\ emailRegex(data.email)
        /\ ~NameMissing(data.name)
        /\ \A r \in before.users :
             r.email # data.email /\ r.email # toLowerCase(data.email)
        /\ data.userId # Empty => ~HadUser(data.userId)

\* C18: createUser with a valid email that is not registered and a valid
\* name, followed by getUserByEmail of the lowercased email, returns the
\* created account: its email is the lowercased email, its name the
\* trimmed name, its id the supplied id if one was given and a generated
\* one otherwise.
C18_CreateThenFindByEmail ==
  \A p \in Procs :
    LookedUpCreated(p) =>
      LET data == inv[p].prev.inv
      IN /\ inv[p].prev.result.kind = "ok"
         /\ result[p].kind = "ok"
         /\ result[p].value \in users \ before.users
         /\ result[p].value.email = toLowerCase(data.email)
         /\ result[p].value.name = trim(data.name)
         /\ result[p].value.id =
              IF data.userId # Empty THEN data.userId ELSE data.id
         /\ data.userId = Empty => result[p].value.id \in GeneratedIds

\* An account registered with capitals in the email and blanks around the
\* name, under a supplied id, has been looked up.
C18_Witness ==
  \E p \in Procs :
    /\ LookedUpCreated(p)
    /\ inv[p].prev.inv.email # toLowerCase(inv[p].prev.inv.email)
    /\ inv[p].prev.inv.name # trim(inv[p].prev.inv.name)
    /\ inv[p].prev.inv.userId # Empty
    /\ result[p].kind = "ok"
    /\ Cardinality(users) > 1

\* updateUser of an account that existed has returned.
Updated(p) == Returned(p, "updateUser") /\ HadUser(inv[p].userId)

\* Another account held the email, compared without regard to case.
HeldByOther(id, email) ==
  \E r \in before.users :
    r.id # id /\ toLowerCase(r.email) = toLowerCase(email)

OwnEmail(id) == (CHOOSE r \in before.users : r.id = id).email

Rejected400(p) == Status(result[p]) = 400 /\ users = before.users

\* C19: updateUser of an existing account with only an email that another
\* account holds, compared without regard to case, fails with status 409 and
\* changes no account; with the account's own current email it succeeds;
\* with a malformed email, or with a name that is blank after trimming, it
\* fails with status 400 and changes nothing.
C19_UpdateChecksEmailAndName ==
  \A p \in Procs :
    Updated(p) =>
      LET i == inv[p]
      IN /\ ( /\ i.hasEmail
               /\ ~i.hasName
               /\ emailRegex(i.email)
               /\ HeldByOther(i.userId, i.email) )
            => Status(result[p]) = 409 /\ users = before.users
         /\ i.hasEmail /\ ~i.hasName /\ i.email = OwnEmail(i.userId)
            => result[p].kind = "ok"
         /\ i.hasEmail /\ ~emailRegex(i.email) => Rejected400(p)
         /\ ( /\ i.hasName
               /\ NameMissing(i.name)
               /\ ~i.hasEmail )
            => Rejected400(p)

\* updateFilm of a film that existed has returned.
FilmUpdated(p) == Returned(p, "updateFilm") /\ HadFilm(inv[p].filmId)

FilmBefore(id) == CHOOSE r \in before.films : r.id = id

\* The value updateFilm was given for a field, as it is to be stored.
GivenValue(data, field) ==
  CASE field = "title" -> trim(data.title)
    [] field = "description" -> trim(data.description)
    [] field = "price" -> data.price
    [] field = "videoUrl" -> data.videoUrl

\* C20: updateFilm of an existing film with a negative price given fails
\* with status 400 and changes nothing; otherwise it sets each given field
\* of title, description, price and videoUrl (title and description
\* trimmed) and leaves the fields not given, the id, uploadedBy and
\* createdAt of the film, every other film, and users and purchases as they
\* were.
C20_UpdateFilmFrame ==
  \A p \in Procs :
    FilmUpdated(p) =>
      LET data == inv[p].data
          old == FilmBefore(inv[p].filmId)
      IN /\ users = before.users
         /\ purchases = before.purchases
         /\ { r \in films : r.id # old.id }
              = { r \in before.films : r.id # old.id }
         /\ IF "price" \in data.given /\ data.price < 0
              THEN Status(result[p]) = 400 /\ films = before.films
              ELSE /\ result[p].kind = "ok"
                   /\ \E new \in films :
                        /\ new.id = old.id
                        /\ result[p].value = new
                        /\ new.uploadedBy = old.uploadedBy
                        /\ new.createdAt = old.createdAt
                        /\ \A f \in FilmFields :
                             new[f] = IF f \in data.given
                                        THEN GivenValue(data, f)
                                        ELSE old[f]

\* A film with a purchase has been updated with only a title and a price,
\* after an earlier update, while the other film was never touched.
C20_Witness ==
  \E p \in Procs :
    /\ FilmUpdated(p)
    /\ inv[p].data.given = { "title", "price" }
    /\ inv[p].data.price = 0
    /\ result[p].kind = "ok"
    /\ FilmBefore(inv[p].filmId).price = 2
    /\ FilmBefore(inv[p].filmId).description = trim(DescriptionPadded)
    /\ Len(purchases) > 0
    /\ films # before.films

\* C21: a purchase, once stored, is in every later state at the same place
\* with the same fields, whatever purchaseFilm, updateFilm, deleteFilm,
\* createUser, updateUser and deleteUser do; and a checkFilmPurchased that
\* returns while the purchase of its pair is stored returns true.
C21_PurchaseKept ==
  [][ /\ \A i \in DOMAIN purchases :
           i \in DOMAIN purchases' /\ purchases'[i] = purchases[i]
      /\ \A p \in Procs :
           ( /\ inv[p].op = "checkFilmPurchased"
             /\ pc[p] # "done"
             /\ pc'[p] = "done"
             /\ checkIfPurchased(inv[p].userId, inv[p].filmId) )
           => result'[p] = OkWith(TRUE) ]_vars

\* A purchase is stored, a deleteUser of its account has been refused, and
\* checkFilmPurchased has answered true for its pair.
C21_Witness ==
  \E p \in Procs, q \in Procs :
    /\ Done(p, "checkFilmPurchased")
    /\ result[p] = OkWith(TRUE)
    /\ Done(q, "deleteUser")
    /\ result[q].kind = "PrismaClientKnownRequestError"
    /\ checkIfPurchased(inv[p].userId, inv[p].filmId)

\* purchaseFilm of a film that did not exist has returned.
PurchasedMissingFilm(p) ==
  Returned(p, "purchaseFilm") /\ ~HadFilm(inv[p].filmId)

\* C22: purchaseFilm for a filmId that no film has fails with the 404
\* ApiError and leaves users, films and purchases as they were when it
\* started, also when no account has the userId.
C22_MissingFilmNotFound ==
  \A p \in Procs :
    PurchasedMissingFilm(p) =>
      /\ result[p] = ApiError(404)
      /\ users = before.users
      /\ films = before.films
      /\ purchases = before.purchases

\* A film was deleted and then asked for by a caller without an account.
C22_Witness ==
  \E p \in Procs :
    /\ PurchasedMissingFilm(p)
    /\ ~HadUser(inv[p].userId)
    /\ findById(users, inv[p].userId) = {}

\* deleteUser of an account that existed has returned.
UserDeleted(p) == Returned(p, "deleteUser") /\ HadUser(inv[p].userId)

HadPurchaseBy(userId) ==
  \E i \in DOMAIN before.purchases : before.purchases[i].userId = userId

\* C23: deleteUser of an existing account that has a purchase fails with
\* the foreign-key error of the storage and leaves every account and
\* purchase in place; of an existing account without a purchase it succeeds
\* and removes that account and nothing else.
C23_DeleteUserRestricted ==
  \A p \in Procs :
    UserDeleted(p) =>
      /\ films = before.films
      /\ purchases = before.purchases
      /\ IF HadPurchaseBy(inv[p].userId)
           THEN /\ result[p].kind = "PrismaClientKnownRequestError"
                /\ result[p].code = "P2003"
                /\ users = before.users
           ELSE /\ result[p] = Ok
                /\ users = before.users \ findById(before.users, inv[p].userId)
                /\ Cardinality(users) = Cardinality(before.users) - 1

\* An account with a purchase was refused deletion.
C23_Witness ==
  \E p \in Procs :
    /\ UserDeleted(p)
    /\ HadPurchaseBy(inv[p].userId)
    /\ result[p].kind # "ok"
    /\ Len(purchases) > 0

\* createFilm, or updateFilm of a film that existed, has returned and was
\* given a negative price.
NegativePriceGiven(p) ==
  \/ Returned(p, "createFilm") /\ inv[p].data.price < 0
  \/ /\ FilmUpdated(p)
     /\ "price" \in inv[p].data.given
     /\ inv[p].data.price < 0

\* C24: whatever createFilm and updateFilm calls were made, every stored
\* film has a price of at least 0; a createFilm, or an updateFilm of an
\* existing film, that is given a negative price fails with status 400 and
\* leaves the films as they were.
C24_PricesNonNegative ==
  /\ \A r \in films : r.price >= 0
  /\ \A p \in Procs :
       NegativePriceGiven(p) =>
         /\ result[p] = ApiError(400)
         /\ films = before.films

\* A film created earlier is stored, and an update of a film to a negative
\* price has been refused.
C24_Witness ==
  \E p \in Procs :
    /\ FilmUpdated(p)
    /\ NegativePriceGiven(p)
    /\ \E r \in films : r.id \in NewFilmIds
    /\ \E r \in films : r.price = 0

\* C27: whatever createFilm and updateFilm calls were made, every stored
\* film has a title that is not empty after trimming.
C27_TitlesNonEmpty == \A r \in films : ~TitleMissing(r.title)

\* The operations that begin with getUserById.
ExistenceChecked ==
  { "getUserPurchasedFilms", "getUserStats", "getUserPurchaseHistory",
    "checkFilmPurchased", "updateUser", "deleteUser" }

\* One of them, called with an id that no account had, has returned.
CalledForMissingUser(p) ==
  /\ inv[p].op \in ExistenceChecked
  /\ Returned(p, inv[p].op)
  /\ ~HadUser(inv[p].userId)

\* C25: getUserPurchasedFilms, getUserStats, getUserPurchaseHistory,
\* checkFilmPurchased, updateUser and deleteUser called with an id that no
\* account has end with the 404 ApiError and leave users, films and
\* purchases as they were; the step that finds no account is the last step
\* of the invocation and writes nothing.
C25_MissingUserNotFound ==
  /\ [](\A p \in Procs :
          CalledForMissingUser(p) =>
            /\ result[p] = ApiError(404)
            /\ users = before.users
            /\ films = before.films
            /\ purchases = before.purchases)
  /\ [][ \A p \in Procs :
           ( /\ inv[p].op \in ExistenceChecked
             /\ ~Free(p)
             /\ pc'[p] # pc[p]
             /\ findById(users, inv[p].userId) = {} )
           => /\ pc'[p] = "done"
              /\ result'[p] = ApiError(404)
              /\ << users, films, purchases >>' = << users, films, purchases >>
     ]_vars

\* The purchase history was asked for an id without an account while
\* another account had purchases.
C25_Witness ==
  \E p \in Procs :
    /\ CalledForMissingUser(p)
    /\ inv[p].op = "getUserPurchaseHistory"
    /\ Len(purchases) > 1

\* C26: the window is fixed.  A check of a caller whose entry exists, made
\* at a time not later than the entry's resetTime, keeps the resetTime and
\* adds one to the count, whether it is admitted or rejected; any other
\* check, with no entry or later than resetTime, stores count 1 and
\* resetTime = now + windowMs.
C26_WindowIsFixed ==
  [][ Len(log') = Len(log) + 1 =>
        LET e == log'[Len(log')]
            k == e.key
        IN IF k \in DOMAIN store /\ now <= store[k].resetTime
             THEN store'[k] = [count |-> store[k].count + 1,
                               resetTime |-> store[k].resetTime]
             ELSE store'[k] =
                    [count |-> 1,
                     resetTime |-> now + limiters[e.limiter].windowMs]
    ]_vars

\* A caller was rejected and checked again at the very end of the same
\* window: the count went on and the window stayed.
C26_Witness ==
  \E k \in Keys :
    LET L == SubLog("limiter", k)
    IN \E i \in DOMAIN L, j \in DOMAIN L :
         /\ i < j
         /\ L[i].outcome = ApiError(429)
         /\ L[j].time = L[i].resetTime
         /\ L[j].time > L[i].time
         /\ L[j].resetTime = L[i].resetTime
         /\ L[j].count = L[i].count + (j - i)

\* purchaseFilm of request p has failed, and no other request was a
\* purchaseFilm of the same userId.
FailedAlone(p) ==
  /\ Done(p, "purchaseFilm")
  /\ result[p].kind # "ok"
  /\ \A q \in Procs \ { p } :
       ~(inv[q].op = "purchaseFilm" /\ inv[q].userId = inv[p].userId)

\* C28: starting without accounts, however purchaseFilm and deleteFilm
\* invocations interleave, a purchaseFilm that has failed leaves no account
\* it provisioned: no account with its userId is stored (unless another
\* purchaseFilm of the same userId may have provisioned it).
C28_FailedPurchaseLeavesNoAccount ==
  \A p \in Procs : FailedAlone(p) => findById(users, inv[p].userId) = {}

\* C29: however purchaseFilm and deleteFilm invocations interleave, a
\* purchaseFilm that fails is answered 404 or 409, a deleteFilm that fails
\* is answered 404 or ends with the has-purchases ApiError of the service,
\* and no invocation ends with the foreign-key error P2003 or with status
\* 500.
C29_OnlyServiceFailures ==
  \A p \in Procs :
    ( pc[p] = "done" /\ result[p].kind # "ok" ) =>
      /\ inv[p].op = "purchaseFilm" => Status(result[p]) \in { 404, 409 }
      /\ inv[p].op = "deleteFilm" =>
           Status(result[p]) = 404 \/ result[p] = DeleteFilmRejection
      /\ result[p].code # "P2003"
      /\ Status(result[p]) # 500

\* Requests p and q were the only ones: purchaseFilm of one userId without
\* an account, for two different films, and both have returned.
TwoItemsDone(p, q) ==
  /\ p # q
  /\ Done(p, "purchaseFilm")
  /\ Done(q, "purchaseFilm")
  /\ inv[p].userId = inv[q].userId
  /\ inv[p].filmId # inv[q].filmId
  /\ \A r \in Procs \ { p, q } : inv[r].op = "none"

\* C30: two purchaseFilm invocations of one userId that has no account, for
\* two different existing films, both return the created Purchase in every
\* interleaving, and one account with that id exists afterwards.
C30_BothPurchasesSucceed ==
  \A p \in Procs, q \in Procs :
    TwoItemsDone(p, q) =>
      /\ result[p] = Ok
      /\ result[q] = Ok
      /\ Cardinality(findById(users, inv[p].userId)) = 1
      /\ checkIfPurchased(inv[p].userId, inv[p].filmId)
      /\ checkIfPurchased(inv[q].userId, inv[q].filmId)

====
